---------------------------- MODULE Spec2Model ----------------------------
(***************************************************************************)
(* Model of the hybrid sentiment service of MoodAnalyzer:                  *)
(*   app/router/request_router.py              RequestRouter               *)
(*   app/services/hybrid_sentiment_rusentiment.py                          *)
(*                                 HybridSentimentServiceRuSentiment       *)
(*   app/main_rusentiment.py                   the /analyze and            *)
(*                                             /batch_analyze endpoints    *)
(*                                                                         *)
(* Representation.                                                         *)
(*  - A text is a sequence of characters; a character is a one-token       *)
(*    string.  The Cyrillic letters of the source are written with Latin   *)
(*    tokens, one token per letter (LowerLetters/UpperLetters below give   *)
(*    the alphabet in the order a, be, ve, ge, de, ie, io, zhe, ...).      *)
(*  - An Optional value is <<>> (None) or <<v>>.                           *)
(*  - A confidence is an integer number of 1/10000.                        *)
(*  - A complexity score is a record [q, d]: q is the exact decimal value  *)
(*    in units of 1/2000 and d the number of ulps by which the IEEE-754    *)
(*    double the code computes differs from the double nearest to q/2000.  *)
(***************************************************************************)
EXTENDS Integers, Sequences, FiniteSets, TLC

VARIABLES
    op,        \* the operation that ran last
    request,   \* its input
    response,  \* what it returned (or raised) to its caller
    calls,     \* the collaborator calls it made, in order
    batch_run, \* the locals of a batch handler that runs step by step
    previous   \* history: <<>>, or <<the call before a repeated call>>

vars == <<op, request, response, calls, batch_run, previous>>

---------------------------------------------------------------------------
(* Characters and the str methods the code uses                            *)

LowerLetters ==
  <<"a", "b", "v", "g", "d", "e", "yo", "zh", "z", "i", "j", "k", "l", "m",
    "n", "o", "p", "r", "s", "t", "u", "f", "h", "c", "ch", "sh", "sch",
    "hs", "y", "ss", "eh", "yu", "ya">>

UpperLetters ==
  <<"A", "B", "V", "G", "D", "E", "YO", "ZH", "Z", "I", "J", "K", "L", "M",
    "N", "O", "P", "R", "S", "T", "U", "F", "H", "C", "CH", "SH", "SCH",
    "HS", "Y", "SS", "EH", "YU", "YA">>

Range(s) == {s[i] : i \in 1..Len(s)}

Letters == Range(LowerLetters) \cup Range(UpperLetters)

WhitespaceChars == {" ", "\t", "\n"}

PunctuationChars == {"?", "!", ".", ","}

Chars == Letters \cup WhitespaceChars \cup PunctuationChars

\* str.isspace / str.isalnum on one character
isspace(c) == c \in WhitespaceChars

isalnum(c) == c \in Letters

ToLower ==
  [c \in Chars |->
     IF c \in Range(UpperLetters)
       THEN LowerLetters[CHOOSE i \in 1..Len(UpperLetters) : UpperLetters[i] = c]
       ELSE c]

\* str.lower()
lower(text) == [i \in 1..Len(text) |-> ToLower[text[i]]]

\* str.strip()
strip(text) ==
  LET ns == {i \in 1..Len(text) : ~isspace(text[i])}
  IN  IF ns = {} THEN <<>>
      ELSE SubSeq(text,
                  CHOOSE i \in ns : \A j \in ns : i <= j,
                  CHOOSE i \in ns : \A j \in ns : j <= i)

\* len(text.split()): the number of maximal runs of non-whitespace
word_count(text) ==
  Cardinality({i \in 1..Len(text) :
                 ~isspace(text[i]) /\ (i = 1 \/ isspace(text[i - 1]))})

\* pattern in text
Contains(pattern, text) ==
  \E i \in 1..(Len(text) - Len(pattern) + 1) :
     \A j \in 1..Len(pattern) : text[i + j - 1] = pattern[j]

\* re.search(a + r'\s+' + b, text) for literal a and b
SearchGap(a, b, text) ==
  \E i \in 1..(Len(text) - Len(a) - Len(b)) :
     /\ \A j \in 1..Len(a) : text[i + j - 1] = a[j]
     /\ \E g \in 1..(Len(text) - Len(a) - Len(b) - i + 1) :
          /\ \A k \in 1..g : isspace(text[i + Len(a) + k - 1])
          /\ \A j \in 1..Len(b) : text[i + Len(a) + g + j - 1] = b[j]

Min(a, b) == IF a <= b THEN a ELSE b

---------------------------------------------------------------------------
(* _default_config                                                         *)

\* 0.7, in 1/10000
min_fast_confidence == 7000

max_text_length_fast == 200

complexity_word_count_threshold == 20

\* 0.3, in tenths
complexity_special_chars_threshold == 3

accurate_patterns ==
  << <<"s", "a", "r", "k", "a", "z", "m">>,
     <<"i", "r", "o", "n", "i", "ya">>,
     <<"k", "o", "n", "e", "ch", "n", "o">>,
     <<"e", "sch", "yo", " ", "b", "y">>,
     <<"n", "a", "v", "e", "r", "n", "o", "e">>,
     <<"v", "o", "z", "m", "o", "zh", "n", "o">>,
     <<"m", "o", "zh", "e", "t", " ", "b", "y", "t", "ss">>,
     <<"s", "k", "o", "r", "e", "e", " ", "v", "s", "e", "g", "o">>,
     <<"s", " ", "o", "d", "n", "o", "j", " ", "s", "t", "o", "r", "o", "n", "y">>,
     <<"s", " ", "d", "r", "u", "g", "o", "j", " ", "s", "t", "o", "r", "o", "n", "y">>,
     <<"e", "s", "l", "i", " ", "b", "y">>,
     <<"h", "o", "t", "e", "l", "o", "s", "ss", " ", "b", "y">>,
     <<"zh", "e", "l", "a", "t", "e", "l", "ss", "n", "o">>,
     <<"p", "o", " ", "s", "r", "a", "v", "n", "e", "n", "i", "yu">>,
     <<"v", " ", "o", "t", "l", "i", "ch", "i", "e", " ", "o", "t">> >>

---------------------------------------------------------------------------
(* Floating point: the complexity score                                    *)

Fl(q, d) == [q |-> q, d |-> d]

\* The additions of analyze_text_complexity whose IEEE-754 result is not the
\* double nearest to the exact sum: <<q, d, addend, d'>>.  Exact sums are
\* multiples of 1/2000, so rounding can change a comparison with 0.7 or 1.0
\* only when the exact sum is 0.7 or 1.0, which needs a length factor of
\* exactly 0.3 (text_len >= max_text_length_fast); the table holds every
\* addition the code can make from 0.3 (0.3 + 0.1 + 0.2 = 0.6000000000000001,
\* 0.7 + 0.1 = 0.7999999999999999, ...).
RoundingDeviations ==
  { <<800, 0, 400, 1>>,   <<1200, 1, 200, 1>>,
    <<1400, 0, 200, -1>>, <<1400, 0, 400, -1>>,
    <<1600, -1, 200, -1>>, <<1800, -1, 200, -1>> }

\* score += k
FAdd(x, k) ==
  LET hit == {e \in RoundingDeviations : e[1] = x.q /\ e[2] = x.d /\ e[3] = k}
  IN  Fl(x.q + k, IF hit = {} THEN 0 ELSE (CHOOSE e \in hit : TRUE)[4])

\* x > q/2000, q/2000 the double of a decimal literal
FGt(x, q) == x.q > q \/ (x.q = q /\ x.d > 0)

\* min(max(score, 0.0), 1.0)
Clamp01(x) ==
  IF x.q < 0 THEN Fl(0, 0)
  ELSE IF FGt(x, 2000) THEN Fl(2000, 0)
  ELSE x

---------------------------------------------------------------------------
(* RequestRouter                                                           *)

complex_patterns ==
  << <<"n", "o">>,
     <<"o", "d", "n", "a", "k", "o">>,
     <<"h", "o", "t", "ya">>,
     <<"n", "e", "s", "m", "o", "t", "r", "ya", " ", "n", "a">>,
     <<"v", " ", "t", "o", " ", "v", "r", "e", "m", "ya", " ", "k", "a", "k">>,
     <<"t", "e", "m", " ", "n", "e", " ", "m", "e", "n", "e", "e">>,
     <<"v", "p", "r", "o", "ch", "e", "m">>,
     <<"s", "l", "e", "d", "o", "v", "a", "t", "e", "l", "ss", "n", "o">>,
     <<"t", "a", "k", "i", "m", " ", "o", "b", "r", "a", "z", "o", "m">> >>

\* r'ne\s+ne', r'ni\s+ni', r'bez\s+ne' as <<before the gap, after the gap>>
negation_patterns ==
  << << <<"n", "e">>, <<"n", "e">> >>,
     << <<"n", "i">>, <<"n", "i">> >>,
     << <<"b", "e", "z">>, <<"n", "e">> >> >>

\* sum(1 for char in text if not char.isalnum() and not char.isspace())
special_chars(text) ==
  Cardinality({i \in 1..Len(text) : ~isalnum(text[i]) /\ ~isspace(text[i])})

\* The six factors of the score, as the code tests them
LengthFactor(text) ==
  (600 * Min(Len(text), max_text_length_fast)) \div max_text_length_fast

ManyWords(text) == word_count(text) > complexity_word_count_threshold

ManySpecials(text) ==
  10 * special_chars(text) > complexity_special_chars_threshold * Len(text)

HasConnective(text) ==
  \E k \in 1..Len(complex_patterns) : Contains(complex_patterns[k], lower(text))

MixedPunctuation(text) == Contains(<<"?">>, text) /\ Contains(<<"!">>, text)

HasDoubleNegation(text) ==
  \E k \in 1..Len(negation_patterns) :
     SearchGap(negation_patterns[k][1], negation_patterns[k][2], lower(text))

\* score += bonus if the factor's condition holds
AddIf(score, condition, bonus) == IF condition THEN FAdd(score, bonus) ELSE score

RECURSIVE AddTimes(_, _, _)
\* score += bonus, n times
AddTimes(score, bonus, n) ==
  IF n = 0 THEN score ELSE AddTimes(FAdd(score, bonus), bonus, n - 1)

\* Mutation: the loop over complex_patterns has no break, so that every
\* connective that occurs adds its 0.1
analyze_text_complexity_per_match(text) ==
  IF text = <<>> THEN Fl(0, 0)
  ELSE
    Clamp01(
      AddIf(AddIf(AddTimes(AddIf(AddIf(Fl(LengthFactor(text), 0),
                                       ManyWords(text), 400),
                                 ManySpecials(text), 400),
                           200,
                           Cardinality({k \in 1..Len(complex_patterns) :
                              Contains(complex_patterns[k], lower(text))})),
                  MixedPunctuation(text), 400),
            HasDoubleNegation(text), 200))

\* Mutation: "return score", without min(max(score, 0.0), 1.0)
analyze_text_complexity_unclamped(text) ==
  IF text = <<>> THEN Fl(0, 0)
  ELSE
    AddIf(AddIf(AddIf(AddIf(AddIf(Fl(LengthFactor(text), 0),
                                  ManyWords(text), 400),
                            ManySpecials(text), 400),
                      HasConnective(text), 200),
                MixedPunctuation(text), 400),
          HasDoubleNegation(text), 200)

analyze_text_complexity(text) ==
  IF text = <<>> THEN Fl(0, 0)
  ELSE
    Clamp01(
      AddIf(AddIf(AddIf(AddIf(AddIf(Fl(LengthFactor(text), 0),
                                    ManyWords(text), 400),
                              ManySpecials(text), 400),
                        HasConnective(text), 200),
                  MixedPunctuation(text), 400),
            HasDoubleNegation(text), 200))

\* The reason strings of RoutingDecision, as a code and its payload: the
\* matched pattern ("Contains pattern: '...'"), the length ("Text too long
\* (N chars)").  The two-decimal rendering of the confidence and of the
\* complexity inside the other two messages is left out; both values are
\* fields of the decision.
Reason(code, pattern, num) == [code |-> code, pattern |-> pattern, num |-> num]

RoutingDecision(use_fast_model, reason, confidence, text_complexity) ==
  [use_fast_model |-> use_fast_model, reason |-> reason,
   confidence |-> confidence, text_complexity |-> text_complexity]

\* The only element of a one-element set.  { F(v) : v \in {e} } evaluates e
\* once and names its value v, as an assignment does.
Only(S) == CHOOSE x \in S : TRUE

\* Mutation: the loop keeps going after a match, so that the last pattern
\* that occurs is the one reported
RECURSIVE LastMatch(_, _)
LastMatch(text_lower, k) ==
  IF k > Len(accurate_patterns) THEN 0
  ELSE IF LastMatch(text_lower, k + 1) # 0 THEN LastMatch(text_lower, k + 1)
  ELSE IF Contains(accurate_patterns[k], text_lower) THEN k
  ELSE 0

RECURSIVE FirstMatch(_, _)
\* for pattern in self.config['accurate_patterns']: if pattern in text_lower:
\* the index of the first pattern from the k-th on that occurs, or 0
FirstMatch(text_lower, k) ==
  IF k > Len(accurate_patterns) THEN 0
  ELSE IF Contains(accurate_patterns[k], text_lower) THEN k
  ELSE FirstMatch(text_lower, k + 1)

\* Mutation: "if fast_confidence and ..." in place of "is not None", which
\* takes a confidence of 0.0 for a missing one
LowConfidenceIfTruthy(fast_confidence) ==
  /\ fast_confidence # <<>>
  /\ fast_confidence[1] # 0
  /\ fast_confidence[1] < min_fast_confidence

\* fast_confidence is not None and fast_confidence < min_fast_confidence
LowConfidence(fast_confidence) ==
  fast_confidence # <<>> /\ fast_confidence[1] < min_fast_confidence

\* Mutation: the length that is tested and reported is that of text.strip()
DecideByStrippedLength(text, fast_confidence, complexity) ==
  IF Len(strip(text)) > max_text_length_fast
    THEN RoutingDecision(FALSE, Reason("TOO_LONG", <<>>, Len(strip(text))),
                         fast_confidence, complexity)
  ELSE IF fast_confidence # <<>> /\ fast_confidence[1] < min_fast_confidence
    THEN RoutingDecision(FALSE, Reason("LOW_CONFIDENCE", <<>>, 0),
                         fast_confidence, complexity)
  ELSE IF FGt(complexity, 1400)
    THEN RoutingDecision(FALSE, Reason("HIGH_COMPLEXITY", <<>>, 0),
                         fast_confidence, complexity)
  ELSE RoutingDecision(TRUE, Reason("SIMPLE_TEXT", <<>>, 0),
                       fast_confidence, complexity)

\* Mutation: the confidence is tested before the length
DecideByConfidenceFirst(text, fast_confidence, complexity) ==
  IF fast_confidence # <<>> /\ fast_confidence[1] < min_fast_confidence
    THEN RoutingDecision(FALSE, Reason("LOW_CONFIDENCE", <<>>, 0),
                         fast_confidence, complexity)
  ELSE IF Len(text) > max_text_length_fast
    THEN RoutingDecision(FALSE, Reason("TOO_LONG", <<>>, Len(text)),
                         fast_confidence, complexity)
  ELSE IF FGt(complexity, 1400)
    THEN RoutingDecision(FALSE, Reason("HIGH_COMPLEXITY", <<>>, 0),
                         fast_confidence, complexity)
  ELSE RoutingDecision(TRUE, Reason("SIMPLE_TEXT", <<>>, 0),
                       fast_confidence, complexity)

\* The checks that follow complexity = self.analyze_text_complexity(text)
DecideByComplexity(text, fast_confidence, complexity) ==
  IF Len(text) > max_text_length_fast
    THEN RoutingDecision(FALSE, Reason("TOO_LONG", <<>>, Len(text)),
                         fast_confidence, complexity)
  ELSE IF LowConfidence(fast_confidence)
    THEN RoutingDecision(FALSE, Reason("LOW_CONFIDENCE", <<>>, 0),
                         fast_confidence, complexity)
  ELSE IF FGt(complexity, 1400)
    THEN RoutingDecision(FALSE, Reason("HIGH_COMPLEXITY", <<>>, 0),
                         fast_confidence, complexity)
  ELSE RoutingDecision(TRUE, Reason("SIMPLE_TEXT", <<>>, 0),
                       fast_confidence, complexity)

\* The pattern loop, match being its outcome, and what follows it
DecideByPattern(text, fast_confidence, match) ==
  IF match # 0
    THEN RoutingDecision(FALSE,
                         Reason("PATTERN_MATCH", accurate_patterns[match], 0),
                         fast_confidence, Fl(2000, 0))
  ELSE Only({ DecideByComplexity(text, fast_confidence, complexity) :
                complexity \in {analyze_text_complexity(text)} })

\* Mutation: "if not text" alone, without the test of text.strip()
should_use_accurate_model_unstripped(text, fast_confidence) ==
  IF text = <<>>
    THEN RoutingDecision(TRUE, Reason("EMPTY_TEXT", <<>>, 0),
                         <<10000>>, Fl(0, 0))
  ELSE Only({ DecideByPattern(text, fast_confidence, match) :
                match \in {FirstMatch(lower(text), 1)} })

should_use_accurate_model(text, fast_confidence) ==
  IF text = <<>> \/ Len(strip(text)) = 0
    THEN RoutingDecision(TRUE, Reason("EMPTY_TEXT", <<>>, 0),
                         <<10000>>, Fl(0, 0))
  ELSE Only({ DecideByPattern(text, fast_confidence, match) :
                match \in {FirstMatch(lower(text), 1)} })

\* The routing_info dictionary of route_request
RoutingInfo(text, decision) ==
  [use_fast_model |-> decision.use_fast_model,
   reason |-> decision.reason,
   fast_confidence |-> decision.confidence,
   text_complexity |-> decision.text_complexity,
   text_length |-> Len(text),
   word_count |-> word_count(text)]

\* if fast_prediction: _, fast_confidence, _ = fast_prediction
\* (fast_prediction is <<>> or <<prediction>>)
ConfidenceOf(fast_prediction) ==
  IF fast_prediction # <<>> THEN <<fast_prediction[1].confidence>> ELSE <<>>

route_request(text, fast_prediction) ==
  Only({ [use_fast |-> decision.use_fast_model,
          routing_info |-> RoutingInfo(text, decision)] :
           decision \in {should_use_accurate_model(text,
                                                   ConfidenceOf(fast_prediction))} })

---------------------------------------------------------------------------
(* The predictor collaborators                                             *)

\* RuSentimentPredictor.classes
classes == {"negative", "positive", "other"}

\* What predict_with_confidence returns: (label, confidence, probabilities);
\* the predicted class holds the confidence, the others share the rest.
Prediction(label, confidence) ==
  [label |-> label, confidence |-> confidence,
   probabilities |->
     [c \in classes |-> IF c = label THEN confidence
                        ELSE (10000 - confidence) \div (Cardinality(classes) - 1)]]

\* A call of a collaborator returns a value or raises an exception
Returns(output) == [ok |-> TRUE, message |-> "", output |-> <<output>>]

Raises(message) == [ok |-> FALSE, message |-> message, output |-> <<>>]

\* AccuratePredictorStub.predict_with_confidence: the prediction of a
\* temporary RuSentimentPredictor, its confidence boosted and its
\* probabilities rewritten; whatever the temporary predictor raises escapes.
AccuratePredictorStub(temp_outcome) ==
  IF ~temp_outcome.ok THEN temp_outcome
  ELSE
    LET t == temp_outcome.output[1]
        boosted_conf == Min((t.confidence * 12) \div 10, 9500)
    IN  Returns([label |-> t.label, confidence |-> boosted_conf,
                 probabilities |->
                   [c \in classes |-> IF c = t.label THEN boosted_conf
                                      ELSE (10000 - boosted_conf)
                                             \div (Cardinality(classes) - 1)]])

---------------------------------------------------------------------------
(* HybridSentimentServiceRuSentiment                                       *)

\* len(text) > 1000: text = text[:1000]
MaxAnalyzeLength == 1000

\* round(n / den, digits) for n/den in 1/unit: the nearest multiple of step
\* (ties to even, as Python rounds a value that is exactly representable)
RoundDiv(n, den, step) ==
  LET lo == (n \div (den * step)) * step
      r2 == 2 * (n - lo * den)
  IN  IF r2 > den * step \/ (r2 = den * step /\ (lo \div step) % 2 = 1)
        THEN lo + step ELSE lo

\* round(x, 3) of a confidence in 1/10000
Round3(x) == RoundDiv(x, 1, 10)

\* round(x, 4) of a time in 1/100000 s
Round4(x) == RoundDiv(x, 1, 10)

error_response(message) ==
  [success |-> FALSE, error |-> message,
   text |-> <<>>, sentiment |-> <<>>, confidence |-> 0,
   probabilities |-> <<>>, model_used |-> <<>>,
   routing_decision |-> <<>>, performance |-> <<>>, text_info |-> <<>>]

\* An argument of analyze: a str, or another Python object with its truth value
Str(text) == [kind |-> "str", text |-> text, truthy |-> text # <<>>]

NonStr(kind, truthy) == [kind |-> kind, text |-> <<>>, truthy |-> truthy]

Call(callee, text) == [callee |-> callee, text |-> text]

\* What a call leaves: the value returned, or the exception that escaped it,
\* and the collaborator calls made on the way.
Done(result, cs) == [raised |-> <<>>, result |-> <<result>>, calls |-> cs]

Escapes(message, cs) == [raised |-> <<message>>, result |-> <<>>, calls |-> cs]

\* The success dictionary of analyze
SuccessResult(text, final, model_used, use_fast, routing_info, fast_time, routing_time, model_time) ==
  [success |-> TRUE, error |-> <<>>,
   text |-> <<text>>,
   sentiment |-> <<final.label>>,
   confidence |-> Round3(final.confidence),
   probabilities |-> final.probabilities,
   model_used |-> <<model_used>>,
   routing_decision |->
     << [use_fast |-> use_fast,
         reason |-> routing_info.reason,
         fast_confidence |-> routing_info.fast_confidence,
         text_complexity |-> routing_info.text_complexity] >>,
   performance |->
     << [total_time |-> Round4(fast_time + routing_time + model_time),
         fast_model_time |-> Round4(fast_time),
         routing_time |-> Round4(routing_time),
         final_model_time |-> Round4(model_time)] >>,
   text_info |-> << [length |-> Len(text), word_count |-> word_count(text)] >>]

\* except Exception as e: return self._error_response(f"Analysis error: {str(e)}")
Caught(message, cs) == Done(error_response(<<"Analysis error: ", message>>), cs)

\* Mutation: the accurate predictor is called outside the try block, so that
\* what it raises escapes analyze
EscalateUncaught(text, routed, accurate_outcome, timing, cs) ==
  IF ~accurate_outcome.ok
    THEN Escapes(accurate_outcome.message,
                 Append(cs, Call("accurate_predictor", text)))
  ELSE Done(SuccessResult(text, accurate_outcome.output[1], "accurate_stub",
                          routed.use_fast, routed.routing_info,
                          timing.fast, timing.routing, timing.accurate),
            Append(cs, Call("accurate_predictor", text)))

\* The else branch of "if use_fast": the accurate predictor is called
Escalate(text, routed, accurate_outcome, timing, cs) ==
  IF ~accurate_outcome.ok
    THEN Caught(accurate_outcome.message,
                Append(cs, Call("accurate_predictor", text)))
  ELSE Done(SuccessResult(text, accurate_outcome.output[1], "accurate_stub",
                          routed.use_fast, routed.routing_info,
                          timing.fast, timing.routing, timing.accurate),
            Append(cs, Call("accurate_predictor", text)))

\* Mutation: after the accurate predictor has answered, the fast prediction
\* stays the final one
AfterRoutingKeepsFast(text, fast, routed, accurate_outcome, timing, cs) ==
  IF routed.use_fast
    THEN Done(SuccessResult(text, fast, "rusentiment_fast",
                            routed.use_fast, routed.routing_info,
                            timing.fast, timing.routing, timing.fast),
              cs)
  ELSE IF ~accurate_outcome.ok
    THEN Caught(accurate_outcome.message,
                Append(cs, Call("accurate_predictor", text)))
  ELSE Done(SuccessResult(text, fast, "accurate_stub",
                          routed.use_fast, routed.routing_info,
                          timing.fast, timing.routing, timing.accurate),
            Append(cs, Call("accurate_predictor", text)))

\* if use_fast: ... else: ..., and the result returned
AfterRouting(text, fast, routed, accurate_outcome, timing, cs) ==
  IF routed.use_fast
    THEN Done(SuccessResult(text, fast, "rusentiment_fast",
                            routed.use_fast, routed.routing_info,
                            timing.fast, timing.routing, timing.fast),
              cs)
  ELSE Escalate(text, routed, accurate_outcome, timing, cs)

\* The try block of analyze, given what each collaborator does when called:
\*   fast_outcome      self.fast_predictor.predict_with_confidence(text)
\*   router_error      <<>>, or <<message>> when route_request raises (it can
\*                     only on a prediction that is not of the declared types)
\*   accurate_outcome  self.accurate_predictor.predict_with_confidence(text)
\*   timing            the three differences of time.time() readings
TryAnalyze(text, fast_outcome, router_error, accurate_outcome, timing) ==
  IF ~fast_outcome.ok
    THEN Caught(fast_outcome.message, <<Call("fast_predictor", text)>>)
  ELSE IF router_error # <<>>
    THEN Caught(router_error[1],
                <<Call("fast_predictor", text), Call("router", text)>>)
  ELSE Only({ AfterRouting(text, fast_outcome.output[1], routed,
                           accurate_outcome, timing,
                           <<Call("fast_predictor", text), Call("router", text)>>) :
                routed \in {route_request(text, fast_outcome.output)} })

\* Mutation: the text is passed on whole
NotTruncated(text) == text

\* if len(text) > 1000: text = text[:1000]
Truncated(text) ==
  IF Len(text) > MaxAnalyzeLength THEN SubSeq(text, 1, MaxAnalyzeLength) ELSE text

\* Mutation: "if not text" alone, without isinstance(text, str); an object
\* that is true and no str then fails at len(text), before the try block
analyze_untyped(input, fast_outcome, router_error, accurate_outcome, timing) ==
  IF ~input.truthy
    THEN Done(error_response(<<"Empty text">>), <<>>)
  ELSE IF input.kind # "str"
    THEN Escapes("object has no len()", <<>>)
  ELSE Only({ TryAnalyze(text, fast_outcome, router_error, accurate_outcome, timing) :
                text \in {Truncated(input.text)} })

\* Mutation: "if not text or not text.strip()", which turns a text of
\* whitespace away before any collaborator is called
analyze_stripped(input, fast_outcome, router_error, accurate_outcome, timing) ==
  IF ~input.truthy \/ input.kind # "str"
    THEN Done(error_response(<<"Empty text">>), <<>>)
  ELSE IF Len(strip(input.text)) = 0
    THEN Done(error_response(<<"Empty text">>), <<>>)
  ELSE Only({ TryAnalyze(text, fast_outcome, router_error, accurate_outcome, timing) :
                text \in {Truncated(input.text)} })

analyze(input, fast_outcome, router_error, accurate_outcome, timing) ==
  IF ~input.truthy \/ input.kind # "str"
    THEN Done(error_response(<<"Empty text">>), <<>>)
  ELSE Only({ TryAnalyze(text, fast_outcome, router_error, accurate_outcome, timing) :
                text \in {Truncated(input.text)} })

RECURSIVE CallsOf(_, _)
\* The collaborator calls of the first n calls of analyze, in order
CallsOf(runs, n) ==
  IF n = 0 THEN <<>> ELSE CallsOf(runs, n - 1) \o runs[n].calls

\* The loop of batch_analyze, runs[i] being what the i-th call of analyze
\* leaves: an exception that escapes analyze ends the loop and escapes
BatchLoop(runs) ==
  IF \E i \in 1..Len(runs) : runs[i].raised # <<>>
    THEN Only({ Escapes(runs[k].raised[1], CallsOf(runs, k)) :
                  k \in {CHOOSE i \in 1..Len(runs) :
                           /\ runs[i].raised # <<>>
                           /\ \A j \in 1..(i - 1) : runs[j].raised = <<>>} })
  ELSE Done([i \in 1..Len(runs) |-> runs[i].result[1]], CallsOf(runs, Len(runs)))

\* batch_analyze; env[i] is what the collaborators do during the i-th call of
\* analyze (repeated in turn when there are more texts than environments)
batch_analyze(texts, env) ==
  Only({ BatchLoop(runs) :
           runs \in {[i \in 1..Len(texts) |->
                        analyze(Str(texts[i]),
                                env[((i - 1) % Len(env)) + 1].fast,
                                env[((i - 1) % Len(env)) + 1].router_error,
                                env[((i - 1) % Len(env)) + 1].accurate,
                                env[((i - 1) % Len(env)) + 1].timing)]} })

---------------------------------------------------------------------------
(* The /batch_analyze endpoint                                             *)

\* len(request.texts) > 100
MaxBatchTexts == 100

\* not text or len(text.strip()) == 0
IsBlank(text) == text = <<>> \/ Len(strip(text)) = 0

HTTPException(status_code, detail, position, cs) ==
  [raised |-> << [status_code |-> status_code, detail |-> detail,
                  position |-> position] >>,
   result |-> <<>>, calls |-> cs]

\* class SentimentResponse: text, sentiment and model_used are declared str,
\* so a result whose value for one of them is None fails validation
ValidSentimentResponse(r) ==
  r.text # <<>> /\ r.sentiment # <<>> /\ r.model_used # <<>>

\* class BatchResponse: results: List[SentimentResponse]
ValidBatchResponse(body) ==
  \A i \in 1..Len(body.results) : ValidSentimentResponse(body.results[i])

RECURSIVE SumConfidence(_, _)
\* sum(r['confidence'] for r in rs[1..n])
SumConfidence(rs, n) ==
  IF n = 0 THEN 0 ELSE SumConfidence(rs, n - 1) + rs[n].confidence

RECURSIVE SumTotalTime(_, _)
\* sum(r['performance']['total_time'] for r in rs[1..n])
SumTotalTime(rs, n) ==
  IF n = 0 THEN 0 ELSE SumTotalTime(rs, n - 1) + rs[n].performance[1].total_time

IsSuccess(r) == r.success

IsFailure(r) == ~r.success

UsesFast(r) == r.routing_decision[1].use_fast

\* Mutation: accurate_count = len(results) - fast_count, which takes the
\* failed results for results of the accurate model
StatisticsOverAllResults(texts, results) ==
  LET successful == SelectSeq(results, IsSuccess)
      failed == SelectSeq(results, IsFailure)
      n == Len(successful)
      fast_count == IF n > 0 THEN Len(SelectSeq(successful, UsesFast)) ELSE 0
      accurate_count == IF n > 0 THEN Len(results) - fast_count ELSE 0
  IN  [total_texts |-> Len(texts),
       successful |-> n,
       failed |-> Len(failed),
       routing |-> [fast_model |-> fast_count, accurate_model |-> accurate_count],
       average_confidence |->
         IF n > 0 THEN RoundDiv(SumConfidence(successful, n), n, 10) ELSE 0,
       average_processing_time |->
         IF n > 0 THEN RoundDiv(SumTotalTime(successful, n), n, 10) ELSE 0]

\* Mutation: the sums over the successful results are divided by
\* len(results)
StatisticsAveragedOverAll(texts, results) ==
  LET successful == SelectSeq(results, IsSuccess)
      failed == SelectSeq(results, IsFailure)
      n == Len(successful)
      fast_count == IF n > 0 THEN Len(SelectSeq(successful, UsesFast)) ELSE 0
      accurate_count == IF n > 0 THEN n - fast_count ELSE 0
  IN  [total_texts |-> Len(texts),
       successful |-> n,
       failed |-> Len(failed),
       routing |-> [fast_model |-> fast_count, accurate_model |-> accurate_count],
       average_confidence |->
         IF n > 0 THEN RoundDiv(SumConfidence(successful, n), Len(results), 10)
         ELSE 0,
       average_processing_time |->
         IF n > 0 THEN RoundDiv(SumTotalTime(successful, n), Len(results), 10)
         ELSE 0]

\* The statistics dictionary of batch_analyze_sentiment
Statistics(texts, results) ==
  LET successful == SelectSeq(results, IsSuccess)
      failed == SelectSeq(results, IsFailure)
      n == Len(successful)
      fast_count == IF n > 0 THEN Len(SelectSeq(successful, UsesFast)) ELSE 0
      accurate_count == IF n > 0 THEN n - fast_count ELSE 0
  IN  [total_texts |-> Len(texts),
       successful |-> n,
       failed |-> Len(failed),
       routing |-> [fast_model |-> fast_count, accurate_model |-> accurate_count],
       average_confidence |->
         IF n > 0 THEN RoundDiv(SumConfidence(successful, n), n, 10) ELSE 0,
       average_processing_time |->
         IF n > 0 THEN RoundDiv(SumTotalTime(successful, n), n, 10) ELSE 0]

\* Mutation: "if not text" alone, without the test of text.strip()
BatchValidationUnstripped(texts) ==
  IF Len(texts) = 0
    THEN <<HTTPException(400, "Texts list cannot be empty", 0, <<>>)>>
  ELSE IF Len(texts) > MaxBatchTexts
    THEN <<HTTPException(400, "Maximum 100 texts per batch", 0, <<>>)>>
  ELSE IF \E i \in 1..Len(texts) : texts[i] = <<>>
    THEN <<HTTPException(400, "Text at position is empty",
              (CHOOSE i \in 1..Len(texts) :
                 texts[i] = <<>> /\ \A j \in 1..(i - 1) : texts[j] # <<>>) - 1,
              <<>>)>>
  ELSE <<>>

\* The upfront checks of batch_analyze_sentiment: <<>> or the HTTPException
BatchValidation(texts) ==
  IF Len(texts) = 0
    THEN <<HTTPException(400, "Texts list cannot be empty", 0, <<>>)>>
  ELSE IF Len(texts) > MaxBatchTexts
    THEN <<HTTPException(400, "Maximum 100 texts per batch", 0, <<>>)>>
  ELSE IF \E i \in 1..Len(texts) : IsBlank(texts[i])
    THEN <<HTTPException(400, "Text at position is empty",
              (CHOOSE i \in 1..Len(texts) :
                 IsBlank(texts[i]) /\ \A j \in 1..(i - 1) : ~IsBlank(texts[j])) - 1,
              <<>>)>>
  ELSE <<>>

\* What FastAPI does with the handler's return value under
\* response_model=BatchResponse: it is validated, and sent only if valid
RespondBatch(body, cs) ==
  IF ValidBatchResponse(body) THEN Done(body, cs)
  ELSE HTTPException(500, "ResponseValidationError", 0, cs)

\* results = service.batch_analyze(request.texts) and what follows it
AfterBatch(texts, run) ==
  IF run.raised # <<>>
    THEN HTTPException(500, run.raised[1], 0, run.calls)
  ELSE RespondBatch([results |-> run.result[1],
                     statistics |-> Statistics(texts, run.result[1])],
                    run.calls)

batch_analyze_sentiment(texts, env) ==
  IF BatchValidation(texts) # <<>> THEN BatchValidation(texts)[1]
  ELSE Only({ AfterBatch(texts, run) : run \in {batch_analyze(texts, env)} })

---------------------------------------------------------------------------
(* The /analyze endpoint                                                   *)

\* if request.force_model: if request.force_model not in ['fast', 'accurate']
\* (force_model is <<>> for None, <<s>> for the string s)
ForceModelRejected(force_model) ==
  /\ force_model # <<>>
  /\ force_model[1] # ""
  /\ force_model[1] \notin {"fast", "accurate"}

\* result = service.analyze(request.text) and what follows it; the return
\* value is validated under response_model=SentimentResponse
AfterAnalyze(run) ==
  IF run.raised # <<>>
    THEN HTTPException(500, run.raised[1], 0, run.calls)
  ELSE IF ~run.result[1].success
    THEN HTTPException(422, run.result[1].error, 0, run.calls)
  ELSE IF ValidSentimentResponse(run.result[1])
    THEN Done(run.result[1], run.calls)
  ELSE HTTPException(500, "ResponseValidationError", 0, run.calls)

analyze_sentiment(text, force_model, env) ==
  IF IsBlank(text)
    THEN HTTPException(400, "Text cannot be empty", 0, <<>>)
  ELSE IF ForceModelRejected(force_model)
    THEN HTTPException(400, "force_model must be 'fast' or 'accurate'", 0, <<>>)
  ELSE Only({ AfterAnalyze(run) :
                run \in {analyze(Str(text), env.fast, env.router_error,
                                 env.accurate, env.timing)} })

---------------------------------------------------------------------------
(* The inputs the operations are run on                                    *)

RECURSIVE Rep(_, _)
\* n copies of s
Rep(s, n) == IF n = 0 THEN <<>> ELSE s \o Rep(s, n - 1)

\* The most copies of a filler put in front of a text
MaxFill == 2

HalfLength == max_text_length_fast \div 2

\* Half a ceiling of letters, and of blanks
LetterFiller == Rep(<<"a">>, HalfLength)

BlankFiller == Rep(<<" ">>, HalfLength)

\* Pieces half a ceiling long: 25 words; a connective, "?!" and a double
\* negation; "?!" alone; 70 full stops
WordsPiece == Rep(<<"a", "a", "a", " ">>, HalfLength \div 4)

ContrastPiece ==
  <<"n", "o", "?", "!", " ", "n", "e", " ", "n", "e">> \o Rep(<<"a">>, HalfLength - 10)

MixedPiece == <<"?", "!">> \o Rep(<<"a">>, HalfLength - 2)

SpecialsPiece == Rep(<<".">>, 70) \o Rep(<<"a">>, HalfLength - 70)

\* Two nuance terms (the sixth and, capitalised, the third of the vocabulary),
\* a plain text (scenario D) and a blank
HedgePiece == <<"v", "o", "z", "m", "o", "zh", "n", "o">>

SurePiece == <<"K", "o", "n", "e", "ch", "n", "o">>

PlainPiece == <<"h", "o", "r", "o", "sh", "i", "j", " ", "t", "o", "v", "a", "r">>

Pieces ==
  { <<>>, <<" ">>, WordsPiece, ContrastPiece, MixedPiece, SpecialsPiece,
    HedgePiece, SurePiece, PlainPiece }

\* The examples of demonstrate_routing that carry no nuance term: the two
\* simple ones, and the three that its comments send to the ACCURATE model
\* (a sentence with "no", mixed emotions, a double negation)
SimplePositiveExample ==
  <<"O", "t", "l", "i", "ch", "n", "y", "j", " ", "t", "o", "v", "a", "r",
    "!">>

SimpleNegativeExample ==
  <<"P", "l", "o", "h", "o", "e", " ", "k", "a", "ch", "e", "s", "t", "v",
    "o", ".">>

ContrastExample ==
  <<"EH", "t", "o", " ", "n", "e", " ", "p", "l", "o", "h", "o", ",", " ",
    "a", " ", "o", "ch", "e", "n", "ss", " ", "d", "a", "zh", "e", " ", "h",
    "o", "r", "o", "sh", "o", ",", " ", "n", "o", " ", "e", "s", "t", "ss",
    " ", "n", "yu", "a", "n", "s", "y", ".", ".", ".">>

MixedEmotionsExample ==
  <<"N", "e", "p", "l", "o", "h", "o", ",", " ", "n", "o", " ", "m", "o",
    "g", "l", "o", " ", "b", "y", "t", "ss", " ", "i", " ", "l", "u", "ch",
    "sh", "e", "!", " ", "A", " ", "p", "o", "ch", "e", "m", "u", " ", "t",
    "a", "k", " ", "d", "o", "r", "o", "g", "o", "?">>

DoubleNegationExample ==
  <<"N", "e", " ", "b", "e", "z", " ", "o", "s", "n", "o", "v", "a", "n",
    "i", "j">>

SimpleExamples == {SimplePositiveExample, SimpleNegativeExample}

ComplexExamples == {ContrastExample, MixedEmotionsExample, DoubleNegationExample}

\* The texts the router is run on
Fills == {Rep(LetterFiller, k) : k \in 0..MaxFill} \cup {Rep(BlankFiller, MaxFill)}

RouterTexts ==
  {f \o a \o b : f \in Fills, a \in Pieces, b \in Pieces}
    \cup SimpleExamples \cup ComplexExamples

\* The texts the complexity score is computed for: each is made of a
\* connective part (none, one connective, two), a punctuation part (none,
\* "?" alone, "?!"), a negation part (none, one double negation, two), 25
\* words or none, 150 full stops or none, and letters
ConnectiveParts ==
  { <<>>, <<"n", "o", " ">>,
    <<"n", "o", " ", "o", "d", "n", "a", "k", "o", " ">> }

PunctuationParts == { <<>>, <<"?", " ">>, <<"?", "!", " ">> }

NegationParts ==
  { <<>>, <<"n", "e", " ", "n", "e", " ">>,
    <<"n", "e", " ", "n", "e", " ", "n", "i", "\t", " ", "n", "i", " ">> }

WordParts == { <<>>, Rep(<<"a", " ">>, HalfLength \div 4) }

SpecialParts == { <<>>, Rep(Rep(<<".">>, HalfLength \div 2), 3) }

ScoreParts ==
  [c : ConnectiveParts, m : PunctuationParts, n : NegationParts,
   w : WordParts, x : SpecialParts, k : {0, MaxFill}]

ScoreText(p) == p.c \o p.m \o p.n \o p.w \o p.x \o Rep(LetterFiller, p.k)

\* The parts in which two texts differ
PartsChanged(p, q) == {f \in DOMAIN p : p[f] # q[f]}

\* The texts analyze is run on
ServicePieces == { <<>>, <<" ">>, ContrastPiece, SurePiece, PlainPiece }

\* A text longer than analyze keeps, with a nuance term beyond the cut
OverlongText ==
  Rep(LetterFiller, (MaxAnalyzeLength \div HalfLength) + 1) \o SurePiece

\* A text exactly as long as analyze keeps
FullLengthText == Rep(LetterFiller, MaxAnalyzeLength \div HalfLength)

ServiceTexts ==
  {Rep(LetterFiller, k) \o a \o b :
     k \in {0, MaxFill}, a \in ServicePieces, b \in ServicePieces}
  \cup {OverlongText, FullLengthText, FullLengthText \o <<"b">>}

Confidences == {0, 6999, 7000, 10000}

RouterPredictions ==
  {<<>>} \cup {<<Prediction("positive", c)>> : c \in Confidences}

FastOutcomes ==
  { Raises("fast model failed"),
    Returns(Prediction("positive", 6999)), Returns(Prediction("negative", 7000)),
    Returns(Prediction("other", 8764)) }

\* What the temporary predictor inside the accurate stub does
TempOutcomes ==
  { Raises("accurate model failed"),
    Returns(Prediction("negative", 7000)), Returns(Prediction("other", 9000)) }

AccurateOutcomes == {AccuratePredictorStub(t) : t \in TempOutcomes}

RouterErrors == { <<>>, <<"router failed">> }

\* fast, routing and accurate durations, in 1/100000 s.  Each is the
\* difference of two readings of time.time(), the wall clock: it is negative
\* when the clock is set back between the two readings (here by 3.5 s,
\* during the call of the fast predictor)
Timings ==
  { [fast |-> 123, routing |-> 4, accurate |-> 45678],
    [fast |-> 0, routing |-> 0, accurate |-> 0],
    [fast |-> 0 - 350000, routing |-> 4, accurate |-> 45678] }

Environments ==
  [fast : FastOutcomes, router_error : RouterErrors,
   accurate : AccurateOutcomes, timing : Timings]

\* Arguments of analyze that are no str: None, 0, 5, [], ["x"]
NonTextInputs ==
  { NonStr("NoneType", FALSE), NonStr("int", FALSE), NonStr("int", TRUE),
    NonStr("list", FALSE), NonStr("list", TRUE) }

AnalyzeInputs == {Str(t) : t \in ServiceTexts} \cup NonTextInputs

\* The arguments of the calls that are repeated, and those of a call made
\* in between
RepeatInputs ==
  { Str(PlainPiece), Str(SurePiece), Str(<<" ">>), Str(ContrastPiece \o PlainPiece),
    Str(Rep(LetterFiller, MaxFill) \o PlainPiece), NonStr("int", TRUE) }

OtherInputs == { Str(PlainPiece), Str(SurePiece) }

\* The bodies of the requests to /analyze: the texts, and force_model (None,
\* "", the two names, another one)
EndpointTexts ==
  { <<>>, <<" ">>, <<" ", "\t", "\n">>, PlainPiece, SurePiece, ContrastPiece }

ForceModels == { <<>>, <<"">>, <<"fast">>, <<"accurate">>, <<"slow">> }

\* The longest batch whose texts and collaborators are drawn freely
MaxBatch == 2

BatchTexts == { <<>>, <<" ">>, PlainPiece, SurePiece }

\* Batches at the size limit: full, one too many, full with a blank last
LimitBatches ==
  { [i \in 1..MaxBatchTexts |-> PlainPiece],
    [i \in 1..(MaxBatchTexts + 1) |-> PlainPiece],
    [i \in 1..MaxBatchTexts |-> IF i = MaxBatchTexts THEN <<" ">> ELSE PlainPiece] }

\* The batches whose handling is followed step by step
StepBatches == UNION {[1..n -> BatchTexts] : n \in 0..MaxBatch}

Batches == StepBatches \cup LimitBatches

BatchEnvironments ==
  [fast : { Raises("fast model failed"),
            Returns(Prediction("positive", 6999)),
            Returns(Prediction("other", 8764)) },
   router_error : { <<>> },
   accurate : { AccuratePredictorStub(Raises("accurate model failed")),
                AccuratePredictorStub(Returns(Prediction("negative", 7000))) },
   timing : { [fast |-> 123, routing |-> 4, accurate |-> 45678] }]

\* What the collaborators do during the calls of a batch: one environment per
\* text, repeated in turn beyond MaxBatch texts
EnvironmentsFor(texts) ==
  IF Len(texts) = 0 THEN {<<>>}
  ELSE [1..Min(Len(texts), MaxBatch) -> BatchEnvironments]

---------------------------------------------------------------------------
(* The state machine: one action per operation                             *)

\* No batch handler is running: no result yet, no statistics yet
NoBatchRun == [results |-> <<>>, statistics |-> <<>>]

Init ==
  /\ op = "start"
  /\ request = [kind |-> "none"]
  /\ response = [kind |-> "none"]
  /\ calls = <<>>
  /\ batch_run = NoBatchRun
  /\ previous = <<>>

\* router.route_request(text, fast_prediction)
Route ==
  \E text \in RouterTexts, fast_prediction \in RouterPredictions :
     /\ op = "start"
     /\ op' = "route_request"
     /\ request' = [text |-> text, fast_prediction |-> fast_prediction]
     /\ response' = route_request(text, fast_prediction)
     /\ calls' = <<>>
     /\ UNCHANGED <<batch_run, previous>>

\* POST /analyze
AnalyzeSentiment ==
  \E text \in EndpointTexts, force_model \in ForceModels, env \in Environments :
     \E r \in {analyze_sentiment(text, force_model, env)} :
        /\ op = "start"
        /\ op' = "analyze_sentiment"
        /\ request' = [text |-> text, force_model |-> force_model, env |-> env]
        /\ response' = [raised |-> r.raised, result |-> r.result]
        /\ calls' = r.calls
        /\ UNCHANGED <<batch_run, previous>>

\* router.analyze_text_complexity(text), for a text and for another one
\* that differs from it in one part at most
Score ==
  \E p \in ScoreParts, q \in ScoreParts :
     /\ op = "start"
     /\ Cardinality(PartsChanged(p, q)) <= 1
     /\ \E text \in {ScoreText(p)}, other \in {ScoreText(q)} :
          /\ op' = "analyze_text_complexity"
          /\ request' = [text |-> text, other |-> other]
          /\ response' = [score |-> analyze_text_complexity(text),
                          other_score |-> analyze_text_complexity(other)]
     /\ calls' = <<>>
     /\ UNCHANGED <<batch_run, previous>>

\* service.analyze(input)
Analyze ==
  \E input \in AnalyzeInputs, env \in Environments :
     \E r \in {analyze(input, env.fast, env.router_error, env.accurate, env.timing)} :
        /\ op = "start"
        /\ op' = "analyze"
        /\ request' = [input |-> input, env |-> env]
        /\ response' = [raised |-> r.raised, result |-> r.result]
        /\ calls' = r.calls
        /\ UNCHANGED <<batch_run, previous>>

\* The call whose repetition is followed: the one that has just returned,
\* or the one before it when another call was made in between
FirstCall ==
  IF previous = <<>> THEN [request |-> request, response |-> response]
  ELSE previous[1]

\* service.analyze(input) on another argument, right after a call; the
\* predictors behave as during that call
AnalyzeOther ==
  /\ op = "analyze"
  /\ previous = <<>>
  /\ request.input \in RepeatInputs
  /\ \E input \in OtherInputs \ {request.input} :
       \E r \in {analyze(input, request.env.fast, request.env.router_error,
                         request.env.accurate, request.env.timing)} :
          /\ op' = "analyze_other"
          /\ request' = [input |-> input, env |-> request.env]
          /\ response' = [raised |-> r.raised, result |-> r.result]
          /\ calls' = r.calls
  /\ previous' = <<FirstCall>>
  /\ UNCHANGED batch_run

\* Mutation: the router answers with the verdict it gave to the call before,
\* kept in a cache that is not keyed by the text
AnalyzeAgainFromCache ==
  /\ op \in {"analyze", "analyze_other"}
  /\ FirstCall.request.input \in RepeatInputs
  /\ \E timing \in Timings :
       \E env \in {[FirstCall.request.env EXCEPT !.timing = timing]} :
          \E r \in {analyze(FirstCall.request.input, env.fast, env.router_error,
                            env.accurate, env.timing)} :
             /\ op' = "analyze_again"
             /\ request' = [input |-> FirstCall.request.input, env |-> env]
             /\ response' =
                  [raised |-> r.raised,
                   result |->
                     IF r.result[1].success /\ response.result[1].success
                       THEN <<[r.result[1] EXCEPT !.routing_decision =
                                 response.result[1].routing_decision]>>
                     ELSE r.result]
             /\ calls' = r.calls
  /\ previous' = <<FirstCall>>
  /\ UNCHANGED batch_run

\* service.analyze(input) once more on the argument of the first call, the
\* predictors returning what they returned then; the durations may differ
AnalyzeAgain ==
  /\ op \in {"analyze", "analyze_other"}
  /\ FirstCall.request.input \in RepeatInputs
  /\ \E timing \in Timings :
       \E env \in {[FirstCall.request.env EXCEPT !.timing = timing]} :
          \E r \in {analyze(FirstCall.request.input, env.fast, env.router_error,
                            env.accurate, env.timing)} :
             /\ op' = "analyze_again"
             /\ request' = [input |-> FirstCall.request.input, env |-> env]
             /\ response' = [raised |-> r.raised, result |-> r.result]
             /\ calls' = r.calls
  /\ previous' = <<FirstCall>>
  /\ UNCHANGED batch_run

\* POST /batch_analyze with request.texts = texts
BatchAnalyze ==
  \E texts \in Batches :
     \E env \in EnvironmentsFor(texts) :
        \E r \in {batch_analyze_sentiment(texts, env)} :
           /\ op = "start"
           /\ op' = "batch_analyze_sentiment"
           /\ request' = [texts |-> texts, env |-> env]
           /\ response' = [raised |-> r.raised, result |-> r.result]
           /\ calls' = r.calls
           /\ UNCHANGED <<batch_run, previous>>

\* POST /batch_analyze, step by step.  BatchReceive is the handler up to the
\* upfront checks: a batch that fails them is answered at once, an accepted
\* one enters the loop of batch_analyze.
BatchReceive ==
  \E texts \in StepBatches :
     \E env \in EnvironmentsFor(texts) :
        \E rejected \in {BatchValidation(texts)} :
           /\ op = "start"
           /\ op' = IF rejected # <<>> THEN "batch_analyze_sentiment"
                    ELSE "batch_loop"
           /\ request' = [texts |-> texts, env |-> env]
           /\ response' = IF rejected # <<>>
                            THEN [raised |-> rejected[1].raised, result |-> <<>>]
                          ELSE [kind |-> "none"]
           /\ calls' = <<>>
           /\ UNCHANGED <<batch_run, previous>>

\* Mutation: results.insert(0, result) in place of results.append(result)
BatchItemPrepending ==
  /\ op = "batch_loop"
  /\ Len(batch_run.results) < Len(request.texts)
  /\ \E i \in {Len(batch_run.results) + 1} :
       \E e \in {request.env[((i - 1) % Len(request.env)) + 1]} :
          \E r \in {analyze(Str(request.texts[i]), e.fast, e.router_error,
                            e.accurate, e.timing)} :
             /\ calls' = calls \o r.calls
             /\ op' = "batch_loop"
             /\ batch_run' =
                  [batch_run EXCEPT !.results = <<r.result[1]>> \o @]
             /\ UNCHANGED response
  /\ UNCHANGED <<request, previous>>

\* One turn of "for text in texts: result = self.analyze(text);
\* results.append(result)"; an exception that leaves analyze leaves the
\* handler too
BatchItem ==
  /\ op = "batch_loop"
  /\ Len(batch_run.results) < Len(request.texts)
  /\ \E i \in {Len(batch_run.results) + 1} :
       \E e \in {request.env[((i - 1) % Len(request.env)) + 1]} :
          \E r \in {analyze(Str(request.texts[i]), e.fast, e.router_error,
                            e.accurate, e.timing)} :
             /\ calls' = calls \o r.calls
             /\ IF r.raised # <<>>
                  THEN /\ op' = "batch_analyze_sentiment"
                       /\ response' =
                            [raised |-> HTTPException(500, r.raised[1], 0, <<>>).raised,
                             result |-> <<>>]
                       /\ UNCHANGED batch_run
                  ELSE /\ op' = "batch_loop"
                       /\ batch_run' =
                            [batch_run EXCEPT !.results = Append(@, r.result[1])]
                       /\ UNCHANGED response
  /\ UNCHANGED <<request, previous>>

\* The loop is over: the handler computes the statistics and returns
\* results and statistics, which FastAPI validates and sends
BatchRespond ==
  /\ op = "batch_loop"
  /\ Len(batch_run.results) = Len(request.texts)
  /\ \E statistics \in {Statistics(request.texts, batch_run.results)} :
       \E r \in {RespondBatch([results |-> batch_run.results,
                                statistics |-> statistics], calls)} :
          /\ op' = "batch_analyze_sentiment"
          /\ batch_run' = [batch_run EXCEPT !.statistics = <<statistics>>]
          /\ response' = [raised |-> r.raised, result |-> r.result]
  /\ UNCHANGED <<request, calls, previous>>

\* The caller has taken the response; the service waits for the next call.
\* Neither the router nor the service keeps anything from the call.
Return ==
  /\ op # "start"
  /\ op' = "start"
  /\ request' = [kind |-> "none"]
  /\ response' = [kind |-> "none"]
  /\ calls' = <<>>
  /\ batch_run' = NoBatchRun
  /\ previous' = <<>>

Next ==
  \/ Route
  \/ Score
  \/ Analyze
  \/ AnalyzeOther
  \/ AnalyzeAgain
  \/ BatchAnalyze
  \/ AnalyzeSentiment
  \/ BatchReceive
  \/ BatchItem
  \/ BatchRespond
  \/ Return

Spec == Init /\ [][Next]_vars

\* The components on their own: the router, the service, the batch endpoint
RouterNext == Route \/ Return

RouterSpec == Init /\ [][RouterNext]_vars

ScoreNext == Score \/ Return

ScoreSpec == Init /\ [][ScoreNext]_vars

ServiceNext == Analyze \/ Return

ServiceSpec == Init /\ [][ServiceNext]_vars

\* The service called again and again
RepeatNext == Analyze \/ AnalyzeOther \/ AnalyzeAgain \/ Return

RepeatSpec == Init /\ [][RepeatNext]_vars

\* The service called directly, and behind its endpoint
SingleNext == Analyze \/ AnalyzeSentiment \/ Return

SingleSpec == Init /\ [][SingleNext]_vars

EndpointNext == BatchAnalyze \/ Return

EndpointSpec == Init /\ [][EndpointNext]_vars

\* The batch endpoint step by step
BatchNext == BatchReceive \/ BatchItem \/ BatchRespond \/ Return

BatchSpec == Init /\ [][BatchNext]_vars

\* Step by step, the handler ends where batch_analyze_sentiment puts it
StepsAgree ==
  (op = "batch_analyze_sentiment" /\ batch_run # NoBatchRun) =>
     \E r \in {batch_analyze_sentiment(request.texts, request.env)} :
        /\ response = [raised |-> r.raised, result |-> r.result]
        /\ calls = r.calls
---------------------------------------------------------------------------
(* The routing policy: claims C1 to C5                                     *)

\* The call that ran last is route_request
Routed == op = "route_request"

Verdict == response.routing_info

\* The confidence route_request was given, <<>> when it was given none
GivenConfidence ==
  IF request.fast_prediction = <<>> THEN <<>>
  ELSE <<request.fast_prediction[1].confidence>>

\* The conditions of the six rules, each stated on the text and the
\* confidence alone
NuanceTermsIn(text) ==
  Only({ {k \in 1..Len(accurate_patterns) : Contains(accurate_patterns[k], low)} :
           low \in {lower(text)} })

Blank(text) == \A i \in 1..Len(text) : text[i] \in WhitespaceChars

TooLong(text) == Len(text) > max_text_length_fast

ConfidenceBelow(confidence) ==
  confidence # <<>> /\ confidence[1] < min_fast_confidence

ComplexityAbove(text) == FGt(analyze_text_complexity(text), 1400)

\* C1: a text holding a nuance term is escalated whatever the fast confidence
\* (none, 1.0, ...), with a PATTERN_MATCH reason naming the first term of the
\* vocabulary, in list order, that occurs in the lower-cased text.
C1_NuanceAlwaysEscalates ==
  Routed =>
     \E terms \in {NuanceTermsIn(request.text)} :
        terms # {} =>
          /\ response.use_fast = FALSE
          /\ Verdict.use_fast_model = FALSE
          /\ Verdict.reason.code = "PATTERN_MATCH"
          /\ \E k \in terms :
               /\ \A m \in terms : k <= m
               /\ Verdict.reason.pattern = accurate_patterns[k]

\* C1 witness: at confidence 1.0, a text in which the sixth term comes before
\* the third one is escalated with the third term as the reason.
C1_Witness ==
  /\ Routed
  /\ request.text = HedgePiece \o SurePiece
  /\ GivenConfidence = <<10000>>
  /\ response.use_fast = FALSE
  /\ Verdict.reason.pattern = accurate_patterns[3]

\* C2 as stated: every text longer than the ceiling, whatever else it holds,
\* gets useFast=false and TOO_LONG with its exact length.
C2_AsStated ==
  (Routed /\ TooLong(request.text)) =>
     /\ response.use_fast = FALSE
     /\ Verdict.reason.code = "TOO_LONG"
     /\ Verdict.reason.num = Len(request.text)

\* C2 as amended: a text longer than the ceiling that is not blank is never
\* left to the fast model, and when it holds no nuance term the reason is
\* TOO_LONG with its exact length, whatever the fast confidence.
C2_LongTextEscalates ==
  (Routed /\ TooLong(request.text) /\ ~Blank(request.text)) =>
     /\ response.use_fast = FALSE
     /\ NuanceTermsIn(request.text) = {} =>
          /\ Verdict.reason.code = "TOO_LONG"
          /\ Verdict.reason.num = Len(request.text)

\* C2 witness: a text one character over the ceiling, at confidence 1.0
C2_Witness ==
  /\ Routed
  /\ Len(request.text) = max_text_length_fast + 1
  /\ ~Blank(request.text)
  /\ NuanceTermsIn(request.text) = {}
  /\ GivenConfidence = <<10000>>
  /\ Verdict.reason = Reason("TOO_LONG", <<>>, max_text_length_fast + 1)

\* The rules in priority order, and the numbers of those whose condition holds
RuleCodes ==
  <<"EMPTY_TEXT", "PATTERN_MATCH", "TOO_LONG", "LOW_CONFIDENCE",
    "HIGH_COMPLEXITY", "SIMPLE_TEXT">>

RulesThatHold(text, confidence) ==
  {i \in 1..6 :
     \/ i = 1 /\ Blank(text)
     \/ i = 2 /\ NuanceTermsIn(text) # {}
     \/ i = 3 /\ TooLong(text)
     \/ i = 4 /\ ConfidenceBelow(confidence)
     \/ i = 5 /\ ComplexityAbove(text)
     \/ i = 6}

\* C3: the reason of the verdict is that of the earliest rule, in the order
\* empty, nuance, too long, low confidence, high complexity, simple, whose
\* condition holds.
C3_FirstRuleWins ==
  Routed =>
     \E held \in {RulesThatHold(request.text, GivenConfidence)} :
        \E i \in held :
           /\ \A j \in held : i <= j
           /\ Verdict.reason.code = RuleCodes[i]

\* C3 witness: a text that is too long and complex, with a low confidence:
\* three rules hold and the reason is TOO_LONG.
C3_Witness ==
  /\ Routed
  /\ {3, 4, 5} \subseteq RulesThatHold(request.text, GivenConfidence)
  /\ Verdict.reason.code = "TOO_LONG"

\* C4: a text that is empty or all whitespace is left to the fast model with
\* reason EMPTY_TEXT, confidence 1.0 and complexity 0.0, whatever its length
\* and whatever the confidence given.
C4_BlankText ==
  (Routed /\ Blank(request.text)) =>
     /\ response.use_fast = TRUE
     /\ Verdict.reason.code = "EMPTY_TEXT"
     /\ Verdict.fast_confidence = <<10000>>
     /\ Verdict.text_complexity = Fl(0, 0)

\* C4 witness: more whitespace than the ceiling allows, at confidence 0.0
C4_Witness ==
  /\ Routed
  /\ Blank(request.text)
  /\ TooLong(request.text)
  /\ GivenConfidence = <<0>>
  /\ response.use_fast = TRUE
  /\ Verdict.reason.code = "EMPTY_TEXT"

\* Every condition of the fast path holds: no nuance term, at most 200
\* characters, no confidence or one of at least 0.7, complexity at most 0.7
\* (held is the set of the rules that hold)
FastPathConditions(text, confidence, held) ==
  /\ 2 \notin held
  /\ Len(text) <= max_text_length_fast
  /\ confidence = <<>> \/ confidence[1] >= min_fast_confidence
  /\ 5 \notin held

\* C5 as stated: a non-blank text is left to the fast model (SIMPLE_TEXT)
\* exactly when it holds no nuance term, is at most 200 long, has no
\* confidence or one of at least 0.7, and a complexity of at most 0.7;
\* otherwise the reason is LOW_CONFIDENCE when the confidence is supplied and
\* below 0.7, and HIGH_COMPLEXITY when only the complexity rule fires.
C5_AsStated ==
  Routed =>
     \E held \in {RulesThatHold(request.text, GivenConfidence)} :
        1 \notin held =>
          /\ response.use_fast
               <=> FastPathConditions(request.text, GivenConfidence, held)
          /\ response.use_fast => Verdict.reason.code = "SIMPLE_TEXT"
          /\ ConfidenceBelow(GivenConfidence)
               => Verdict.reason.code = "LOW_CONFIDENCE"
          /\ held = {5, 6} => Verdict.reason.code = "HIGH_COMPLEXITY"

\* C5 as amended: the same, the reason being LOW_CONFIDENCE when the
\* confidence is supplied and below 0.7 and neither the nuance rule nor the
\* length rule fires.
C5_FastPath ==
  Routed =>
     \E held \in {RulesThatHold(request.text, GivenConfidence)} :
        1 \notin held =>
          /\ response.use_fast
               <=> FastPathConditions(request.text, GivenConfidence, held)
          /\ response.use_fast => Verdict.reason.code = "SIMPLE_TEXT"
          /\ (ConfidenceBelow(GivenConfidence) /\ 2 \notin held /\ 3 \notin held)
               => Verdict.reason.code = "LOW_CONFIDENCE"
          /\ held = {5, 6} => Verdict.reason.code = "HIGH_COMPLEXITY"

\* C5 witness: all three limits at once: length exactly 200, confidence
\* exactly 0.7 and complexity exactly 0.7 (0.3 + 0.2 + 0.2): SIMPLE_TEXT.
C5_Witness ==
  /\ Routed
  /\ Len(request.text) = max_text_length_fast
  /\ GivenConfidence = <<min_fast_confidence>>
  /\ analyze_text_complexity(request.text) = Fl(1400, 0)
  /\ response.use_fast = TRUE
  /\ Verdict.reason.code = "SIMPLE_TEXT"

---------------------------------------------------------------------------
(* The service: claims C6 to C8                                            *)

Analyzed == op = "analyze"

\* The argument of analyze is a str that is not empty
ValidText == request.input.kind = "str" /\ request.input.text # <<>>

\* The positions in the log of the calls made to a collaborator
CallsTo(callee) == {i \in 1..Len(calls) : calls[i].callee = callee}

\* The messages of the exceptions the collaborators raised during the call
RaisedDuringCall ==
  {request.env.fast.message :
     i \in {j \in CallsTo("fast_predictor") : ~request.env.fast.ok}}
  \cup {request.env.router_error[1] :
          i \in {j \in CallsTo("router") : request.env.router_error # <<>>}}
  \cup {request.env.accurate.message :
          i \in {j \in CallsTo("accurate_predictor") : ~request.env.accurate.ok}}

\* A failed result: success=false, the message, every derived field null
FailedResult(r, message) ==
  /\ r.success = FALSE
  /\ r.error = message
  /\ r.text = <<>>
  /\ r.sentiment = <<>>
  /\ r.model_used = <<>>
  /\ r.routing_decision = <<>>
  /\ r.performance = <<>>
  /\ r.text_info = <<>>

\* C6: analyze never raises to its caller; when the fast predictor, the
\* router or the accurate predictor raises during the call, the result is a
\* failed result whose error carries the message of that exception and whose
\* derived fields are all null.
C6_AnalyzeNeverRaises ==
  Analyzed =>
     /\ response.raised = <<>>
     /\ Len(response.result) = 1
     /\ \A message \in RaisedDuringCall :
          FailedResult(response.result[1], <<"Analysis error: ", message>>)

\* C6 witness: the accurate predictor, called third, raises, and analyze
\* returns the failed result with its message.
C6_Witness ==
  /\ Analyzed
  /\ Len(calls) = 3
  /\ RaisedDuringCall = {"accurate model failed"}
  /\ response.raised = <<>>
  /\ FailedResult(response.result[1],
                  <<"Analysis error: ", "accurate model failed">>)

\* The verdict the router gives during the call, when the call gets that far
RouterAnswers == request.env.fast.ok /\ request.env.router_error = <<>>

ServiceVerdict ==
  route_request(Truncated(request.input.text), request.env.fast.output)

\* The order of the calls: the fast predictor once and first, the router
\* after it, the accurate predictor once and last exactly when the verdict
\* is not for the fast model
CallOrder(verdict) ==
  /\ CallsTo("fast_predictor") = {1}
  /\ CallsTo("router") = IF request.env.fast.ok THEN {2} ELSE {}
  /\ CallsTo("accurate_predictor") =
       IF verdict # <<>> /\ ~verdict[1].use_fast THEN {3} ELSE {}

\* The result r adopts the prediction, with the confidence as returned
Adopts(r, prediction, returned_confidence) ==
  /\ r.sentiment = <<prediction.label>>
  /\ r.confidence = returned_confidence
  /\ r.probabilities = prediction.probabilities

\* What a successful result owes to the verdict: the model named, the verdict
\* recorded, and for an escalated request the fast confidence recorded
AgreesWithVerdict(r, verdict) ==
  /\ r.routing_decision[1].use_fast = verdict.use_fast
  /\ r.model_used = IF verdict.use_fast THEN <<"rusentiment_fast">>
                    ELSE <<"accurate_stub">>
  /\ ~verdict.use_fast =>
        r.routing_decision[1].fast_confidence
          = <<request.env.fast.output[1].confidence>>

\* C7 as stated: on valid text the fast predictor is called once and first,
\* the accurate predictor once and after the routing decision exactly when
\* the verdict has useFast=false; the sentiment, confidence and probabilities
\* returned are those of the fast predictor when useFast=true and those of
\* the accurate predictor otherwise; model_used agrees with the verdict and
\* an escalated request still records the fast predictor's confidence.
C7_AsStated ==
  (Analyzed /\ ValidText) =>
     \E verdict \in {IF RouterAnswers THEN <<ServiceVerdict>> ELSE <<>>} :
        /\ CallOrder(verdict)
        /\ response.result[1].success =>
             /\ verdict # <<>>
             /\ AgreesWithVerdict(response.result[1], verdict[1])
             /\ \E final \in {IF verdict[1].use_fast
                                THEN request.env.fast.output[1]
                                ELSE request.env.accurate.output[1]} :
                  Adopts(response.result[1], final, final.confidence)

\* C7 as amended: the same, the confidence returned being that of the
\* adopted prediction rounded to three decimals.
C7_AdoptedPrediction ==
  (Analyzed /\ ValidText) =>
     \E verdict \in {IF RouterAnswers THEN <<ServiceVerdict>> ELSE <<>>} :
        /\ CallOrder(verdict)
        /\ response.result[1].success =>
             /\ verdict # <<>>
             /\ AgreesWithVerdict(response.result[1], verdict[1])
             /\ \E final \in {IF verdict[1].use_fast
                                THEN request.env.fast.output[1]
                                ELSE request.env.accurate.output[1]} :
                  Adopts(response.result[1], final, Round3(final.confidence))

\* C7 witness: the fast predictor answers positive at 0.6999, the request is
\* escalated, and the result is the accurate predictor's negative at 0.84
\* while the fast confidence recorded is still 0.6999.
C7_Witness ==
  /\ Analyzed
  /\ ValidText
  /\ request.env.fast = Returns(Prediction("positive", 6999))
  /\ Len(calls) = 3
  /\ calls[3].callee = "accurate_predictor"
  /\ response.result[1].success
  /\ response.result[1].sentiment = <<"negative">>
  /\ response.result[1].confidence = 8400
  /\ response.result[1].model_used = <<"accurate_stub">>
  /\ response.result[1].routing_decision[1].fast_confidence = <<6999>>

\* C8: analyze on the empty string, or on an argument that is no str,
\* returns the "Empty text" failed result without calling the fast
\* predictor, the router or the accurate predictor.
C8_EmptyOrNonText ==
  (Analyzed /\ ~ValidText) =>
     /\ response.raised = <<>>
     /\ Len(response.result) = 1
     /\ FailedResult(response.result[1], <<"Empty text">>)
     /\ calls = <<>>

\* C8 witness: a list that is not empty is given in place of a text
C8_Witness ==
  /\ Analyzed
  /\ request.input = NonStr("list", TRUE)
  /\ response.raised = <<>>
  /\ FailedResult(response.result[1], <<"Empty text">>)
  /\ calls = <<>>

---------------------------------------------------------------------------
(* The batch endpoint: claims C9 and C10                                   *)

Batched == op = "batch_analyze_sentiment"

BlankElements == {i \in 1..Len(request.texts) : Blank(request.texts[i])}

\* C9: a batch of more than 100 texts, or one that holds an empty or
\* whitespace-only element at any position, is rejected as a whole with a
\* validation error: no predictor is called and no per-text result is
\* returned, whatever valid elements come before the invalid one.
C9_BatchRejectedUpfront ==
  (Batched /\ (Len(request.texts) > MaxBatchTexts \/ BlankElements # {})) =>
     /\ Len(response.raised) = 1
     /\ response.raised[1].status_code = 400
     /\ response.result = <<>>
     /\ calls = <<>>

\* C9 witness: a batch of exactly 100 texts whose last element alone is
\* blank is rejected, at position 99, without a call.
C9_Witness ==
  /\ Batched
  /\ Len(request.texts) = MaxBatchTexts
  /\ BlankElements = {MaxBatchTexts}
  /\ Len(response.raised) = 1
  /\ response.raised[1].status_code = 400
  /\ response.raised[1].position = MaxBatchTexts - 1
  /\ response.result = <<>>
  /\ calls = <<>>

\* What the collaborators do during the i-th call of analyze of the batch
EnvironmentAt(i) == request.env[((i - 1) % Len(request.env)) + 1]

\* What analyze returns for the i-th text of the batch
ItemResult(i) ==
  analyze(Str(request.texts[i]), EnvironmentAt(i).fast,
          EnvironmentAt(i).router_error, EnvironmentAt(i).accurate,
          EnvironmentAt(i).timing).result[1]

\* The batch passes the upfront checks
Accepted ==
  /\ Len(request.texts) \in 1..MaxBatchTexts
  /\ BlankElements = {}

\* C10: when a predictor fails on an item of an accepted batch, the batch
\* call completes and returns every per-item result, the failed item as a
\* failed result and the others analysed, with a summary that counts the
\* failed item in failed and leaves it out of the fast and accurate counts.
C10_FailedItemIsolated ==
  (Batched /\ Accepted) =>
     \E items \in {[i \in 1..Len(request.texts) |-> ItemResult(i)]} :
        (\E i \in 1..Len(items) : ~items[i].success) =>
           /\ response.raised = <<>>
           /\ Len(response.result) = 1
           /\ response.result[1].results = items
           /\ response.result[1].statistics.failed
                = Cardinality({i \in 1..Len(items) : ~items[i].success})
           /\ response.result[1].statistics.routing.fast_model
                + response.result[1].statistics.routing.accurate_model
                = Cardinality({i \in 1..Len(items) : items[i].success})

---------------------------------------------------------------------------
(* The batch summary: claims C11 to C13                                    *)

\* The handler of an accepted batch has computed its statistics
Summarised == Batched /\ batch_run.statistics # <<>>

Summary == batch_run.statistics[1]

\* C11: for every accepted batch, whatever successes and failures its items
\* give, the summary the handler computes has fast + accurate = successful
\* and successful + failed = total_texts, total_texts being the number of
\* input texts; the summary of a response that is sent is that summary.
C11_SummaryCounts ==
  /\ (Batched /\ Accepted /\ batch_run # NoBatchRun) => Summarised
  /\ Summarised =>
       /\ Accepted
       /\ Summary.routing.fast_model + Summary.routing.accurate_model
            = Summary.successful
       /\ Summary.successful + Summary.failed = Summary.total_texts
       /\ Summary.total_texts = Len(request.texts)
       /\ response.raised = <<>> => response.result[1].statistics = Summary

\* C11 witness: a batch of two texts, one analysed by the accurate model and
\* one failed
C11_Witness ==
  /\ Summarised
  /\ Summary.total_texts = 2
  /\ Summary.successful = 1
  /\ Summary.failed = 1
  /\ Summary.routing = [fast_model |-> 0, accurate_model |-> 1]

\* A batch handler is in its loop or has left it
InBatch == op = "batch_loop" \/ (Batched /\ batch_run # NoBatchRun)

IsFastCall(call) == call.callee = "fast_predictor"

\* The texts the fast predictor was called on, in the order of the calls
FastCallTexts ==
  [k \in 1..Len(SelectSeq(calls, IsFastCall)) |->
     SelectSeq(calls, IsFastCall)[k].text]

\* C12: the batch operation analyses the texts in input order, one after the
\* other: after n turns of the loop the fast predictor has been called on
\* the first n texts, in that order, every other call is on the text of the
\* fast call before it, and result i is the result of text i; the
\* statistics exist only once there is a result for every text, and a
\* response that is sent holds exactly these results.
C12_InputOrder ==
  InBatch =>
     /\ Len(batch_run.results) <= Len(request.texts)
     /\ FastCallTexts = SubSeq(request.texts, 1, Len(batch_run.results))
     /\ calls # <<>> => IsFastCall(calls[1])
     /\ \A p \in 2..Len(calls) :
          ~IsFastCall(calls[p]) => calls[p].text = calls[p - 1].text
     /\ \A i \in 1..Len(batch_run.results) :
          batch_run.results[i] = ItemResult(i)
     /\ op = "batch_loop" => (batch_run.statistics = <<>> /\ response = [kind |-> "none"])
     /\ batch_run.statistics # <<>> =>
          Len(batch_run.results) = Len(request.texts)
     /\ (Batched /\ response.raised = <<>>) =>
          response.result[1].results = batch_run.results

\* C12 witness: a batch of two different texts, the second one escalated:
\* five calls in order, two results in order, sent with the statistics.
C12_Witness ==
  /\ Summarised
  /\ request.texts = <<PlainPiece, SurePiece>>
  /\ Len(calls) = 5
  /\ calls[3] = Call("fast_predictor", SurePiece)
  /\ calls[5] = Call("accurate_predictor", SurePiece)
  /\ response.raised = <<>>
  /\ response.result[1].results[1].text = <<PlainPiece>>
  /\ response.result[1].results[2].text = <<SurePiece>>

RECURSIVE Total(_)
\* The sum of a sequence of numbers
Total(numbers) ==
  IF numbers = <<>> THEN 0 ELSE Head(numbers) + Total(Tail(numbers))

\* The successful results of the batch, their confidences and total times
SuccessfulResults == SelectSeq(batch_run.results, IsSuccess)

SuccessfulConfidences ==
  [k \in 1..Len(SuccessfulResults) |-> SuccessfulResults[k].confidence]

SuccessfulTimes ==
  [k \in 1..Len(SuccessfulResults) |->
     SuccessfulResults[k].performance[1].total_time]

\* average is total / n rounded to a multiple of step: the multiple nearest
\* to the mean
IsRoundedMean(average, total, n, step) ==
  /\ average % step = 0
  /\ 2 * (average * n - total) <= step * n
  /\ 2 * (total - average * n) <= step * n

\* C13: the average confidence and the average total time of the summary
\* are the means over the successful results only (rounded to three and to
\* four decimals), and when no result is successful the fast count, the
\* accurate count and both averages are 0.
C13_AveragesOverSuccessful ==
  Summarised =>
     \E n \in {Len(SuccessfulResults)} :
        /\ Summary.successful = n
        /\ n = 0 =>
             /\ Summary.routing = [fast_model |-> 0, accurate_model |-> 0]
             /\ Summary.average_confidence = 0
             /\ Summary.average_processing_time = 0
        /\ n > 0 =>
             /\ IsRoundedMean(Summary.average_confidence,
                              Total(SuccessfulConfidences), n, 10)
             /\ IsRoundedMean(Summary.average_processing_time,
                              Total(SuccessfulTimes), n, 10)

\* C13 witness: of two texts one fails and the other is answered by the
\* fast model at 0.876 in 0.0025 s: these are the two averages.
C13_Witness ==
  /\ Summarised
  /\ Len(batch_run.results) = 2
  /\ Len(SuccessfulResults) = 1
  /\ SuccessfulResults[1].confidence = 8760
  /\ Summary.average_confidence = 8760
  /\ Summary.average_processing_time = 250

\* C13 witness of the other case is a batch whose every item fails
NoSuccessfulResult ==
  /\ Summarised
  /\ Len(batch_run.results) = 2
  /\ Len(SuccessfulResults) = 0
  /\ Summary.average_confidence = 0

---------------------------------------------------------------------------
(* The complexity score: claims C14 and C15                                *)

Scored == op = "analyze_text_complexity"

\* x <= y for two scores
FLe(x, y) == x.q < y.q \/ (x.q = y.q /\ x.d <= y.d)

\* The factors of a text: the length up to the ceiling and the five tests
Factors(text) ==
  [length |-> Min(Len(text), max_text_length_fast),
   words |-> ManyWords(text),
   specials |-> ManySpecials(text),
   connective |-> HasConnective(text),
   mixed |-> MixedPunctuation(text),
   negation |-> HasDoubleNegation(text)]

AllSixFactors(text) ==
  \E f \in {Factors(text)} :
     /\ f.length = max_text_length_fast
     /\ f.words /\ f.specials /\ f.connective /\ f.mixed /\ f.negation

\* C14: the score analyze_text_complexity returns lies in [0.0, 1.0] for every
\* text, is 1.0 for a text that triggers all six factors at once (the sum
\* being 1.1), and is 0.0 for the empty text.
C14_ScoreInUnitInterval ==
  Scored =>
     /\ FLe(Fl(0, 0), response.score)
     /\ FLe(response.score, Fl(2000, 0))
     /\ request.text = <<>> => response.score = Fl(0, 0)
     /\ AllSixFactors(request.text) => response.score = Fl(2000, 0)

\* C14 witness: a text of more than 200 characters with a connective, "?!",
\* a double negation, 25 words and 150 full stops scores 1.0
C14_Witness ==
  /\ Scored
  /\ AllSixFactors(request.text)
  /\ response.score = Fl(2000, 0)

\* The factors in which two texts differ
FactorsChanged(f, g) == {name \in DOMAIN f : f[name] # g[name]}

\* Factor by factor, g has what f has: at least the length, and every test
\* that holds of f
AtLeast(f, g) ==
  /\ f.length <= g.length
  /\ f.words => g.words
  /\ f.specials => g.specials
  /\ f.connective => g.connective
  /\ f.mixed => g.mixed
  /\ f.negation => g.negation

\* The numbers of connectives and of negation patterns that occur in a text
ConnectivesIn(text) ==
  Cardinality({k \in 1..Len(complex_patterns) :
                 Contains(complex_patterns[k], lower(text))})

NegationsIn(text) ==
  Cardinality({k \in 1..Len(negation_patterns) :
                 SearchGap(negation_patterns[k][1], negation_patterns[k][2],
                           lower(text))})

\* C15: the score never decreases in a factor taken in isolation: of two
\* texts that differ in one factor only, the one that is longer, or has the
\* test that the other lacks, has a score at least as high; and two texts
\* with the same factors have the same score, however many connectives or
\* negation patterns occur in each (the bonus is added once).
C15_MonotoneInEachFactor ==
  Scored =>
     \E f \in {Factors(request.text)}, g \in {Factors(request.other)} :
        /\ (Cardinality(FactorsChanged(f, g)) = 1 /\ AtLeast(f, g))
             => FLe(response.score, response.other_score)
        /\ f = g => response.score = response.other_score

\* C15 witness: a text with one connective and a text with two, the same in
\* every factor: both have the score of one connective, 0.3 + 0.1.
C15_Witness ==
  /\ Scored
  /\ ConnectivesIn(request.text) = 1
  /\ ConnectivesIn(request.other) = 2
  /\ Factors(request.text) = Factors(request.other)
  /\ response.score = Fl(800, 0)
  /\ response.other_score = Fl(800, 0)

\* A longer text, every other factor the same, has a higher score
LongerScoresHigher ==
  /\ Scored
  /\ FactorsChanged(Factors(request.text), Factors(request.other)) = {"length"}
  /\ Len(request.text) < Len(request.other)
  /\ response.score.q < response.other_score.q

\* Two negation patterns add what one adds
NegationAddsOnce ==
  /\ Scored
  /\ NegationsIn(request.text) = 1
  /\ NegationsIn(request.other) = 2
  /\ Factors(request.text) = Factors(request.other)
  /\ response.score = response.other_score

---------------------------------------------------------------------------
(* The complexity on the verdict: claim C16                                *)

\* C16: for every non-blank text the complexity on the routing verdict is
\* the score analyze_text_complexity computes for that text, also when the
\* nuance rule or the length rule fires first.
C16_ComplexityAttached ==
  (Routed /\ ~Blank(request.text)) =>
     Verdict.text_complexity = analyze_text_complexity(request.text)

\* The part of C16 that holds: when no nuance term occurs, the length rule
\* included, the verdict carries the computed score
ComplexityAttachedWithoutNuance ==
  (Routed /\ ~Blank(request.text) /\ NuanceTermsIn(request.text) = {}) =>
     Verdict.text_complexity = analyze_text_complexity(request.text)

\* A nuance term alone, seven characters long and ending in a connective:
\* the computed score is 0.0105 + 0.1 and the verdict carries 1.0
NuanceVerdictCarriesOne ==
  /\ Routed
  /\ request.text = SurePiece
  /\ analyze_text_complexity(request.text) = Fl(221, 0)
  /\ Verdict.text_complexity = Fl(2000, 0)

---------------------------------------------------------------------------
(* Truncation: claim C17                                                   *)

\* The first 1000 characters of the text analyze was given
KeptText ==
  SubSeq(request.input.text, 1, Min(Len(request.input.text), MaxAnalyzeLength))

\* C17: a text longer than 1000 characters is cut to its first 1000 before
\* the fast predictor or the router is called: every collaborator that is
\* called is called on the cut text, the result holds the cut text and its
\* length, and when no collaborator raises the result is a success (a text
\* of at most 1000 characters is passed on whole).
C17_TruncatedFirst ==
  (Analyzed /\ ValidText) =>
     /\ calls # <<>>
     /\ \A i \in 1..Len(calls) : calls[i].text = KeptText
     /\ RaisedDuringCall = {} =>
          /\ response.result[1].success
          /\ response.result[1].text = <<KeptText>>
          /\ response.result[1].text_info[1].length = Len(KeptText)

\* C17 witness: a text of 1107 characters whose nuance term lies beyond the
\* cut: the router sees 1000 characters and no nuance term, the accurate
\* predictor is called on the 1000 characters, and the result is a success.
C17_Witness ==
  /\ Analyzed
  /\ request.input.text = OverlongText
  /\ Len(calls) = 3
  /\ calls[3] = Call("accurate_predictor", KeptText)
  /\ response.result[1].success
  /\ response.result[1].text_info[1].length = MaxAnalyzeLength
  /\ response.result[1].routing_decision[1].reason
       = Reason("TOO_LONG", <<>>, MaxAnalyzeLength)

\* A text of 1001 characters loses its last one
OneCharacterCut ==
  /\ Analyzed
  /\ Len(request.input.text) = MaxAnalyzeLength + 1
  /\ response.result[1].success
  /\ response.result[1].text = <<FullLengthText>>

---------------------------------------------------------------------------
(* Repeated calls: claim C18                                               *)

Repeated == op = "analyze_again"

\* The predictors return now what they returned during the first call
SamePredictorOutputs ==
  /\ request.env.fast = FirstCall.request.env.fast
  /\ request.env.accurate = FirstCall.request.env.accurate

---------------------------------------------------------------------------
(* C19: what the routing demonstration says of its examples                *)

\* route_request was called without a fast prediction
WithoutPrediction == Routed /\ request.fast_prediction = <<>>

\* A short text: not blank, within the length ceiling, no nuance term
ShortPlain(text) ==
  ~Blank(text) /\ ~TooLong(text) /\ NuanceTermsIn(text) = {}

\* What the demonstration calls complex in a short text: a contrastive
\* conjunction, "!" together with "?", or its double negation example
DemoComplex(text) ==
  \/ HasConnective(text)
  \/ MixedPunctuation(text)
  \/ text = DoubleNegationExample

\* C19: without a fast prediction, a short text with no nuance term goes to
\* the ACCURATE model when it carries a contrastive conjunction, mixed "!"
\* and "?", or the double negation "Ne bez osnovanij", and to the FAST model
\* when it is simple.
C19_DemoLabels ==
  WithoutPrediction =>
     \E text \in {request.text} :
        ShortPlain(text) => (response.use_fast <=> ~DemoComplex(text))

\* What the code does with the three examples: each scores below the
\* complexity ceiling (0.178, 0.378 and 0.124), so that each goes to the
\* FAST model as a simple text
ComplexExamplesGoFast ==
  (WithoutPrediction /\ request.text \in ComplexExamples) =>
     /\ response.use_fast
     /\ Verdict.reason.code = "SIMPLE_TEXT"
     /\ ~FGt(Verdict.text_complexity, 1400)

\* The double negation example matches none of the negation patterns; its
\* 0.124 is the length and the "no" inside "osnovanij"
DoubleNegationGoesFast ==
  /\ WithoutPrediction
  /\ request.text = DoubleNegationExample
  /\ ~HasDoubleNegation(request.text)
  /\ HasConnective(request.text)
  /\ response.use_fast
  /\ Verdict.text_complexity = Fl(248, 0)

\* The half of the statement that holds: a short simple text goes to FAST
SimpleExamplesGoFast ==
  (WithoutPrediction /\ request.text \in SimpleExamples) =>
     /\ ~DemoComplex(request.text)
     /\ response.use_fast
     /\ Verdict.reason.code = "SIMPLE_TEXT"

SimpleExampleRouted ==
  WithoutPrediction /\ request.text = SimplePositiveExample /\ response.use_fast

---------------------------------------------------------------------------
(* C20: a text made of whitespace only                                     *)

\* analyze was called on a str that is not empty and holds whitespace only
WhitespaceOnly == Analyzed /\ ValidText /\ Blank(request.input.text)

\* The fast predictor answered and the router did not raise
CollaboratorsAnswer == request.env.fast.ok /\ request.env.router_error = <<>>

\* POST /analyze has been handled
Posted == op = "analyze_sentiment"

\* C20: analyze does not turn away a non-empty text made of whitespace
\* only: the fast predictor is called once on it and the accurate predictor
\* never; when the fast predictor answers, the router answers with the
\* empty-text verdict, and the result is a success that carries the fast
\* predictor's label and a routing_decision whose fast_confidence is 1.0
\* and whose text_complexity is 0.0.  The /analyze endpoint rejects such a
\* text with a 400 before the service is called.
C20_WhitespaceOnly ==
  /\ WhitespaceOnly =>
       /\ response.raised = <<>>
       /\ Cardinality(CallsTo("fast_predictor")) = 1
       /\ calls[1] = Call("fast_predictor", request.input.text)
       /\ CallsTo("accurate_predictor") = {}
       /\ CollaboratorsAnswer =>
            \E r \in {response.result[1]} :
               /\ calls = <<Call("fast_predictor", request.input.text),
                            Call("router", request.input.text)>>
               /\ r.success
               /\ r.text = <<request.input.text>>
               /\ r.sentiment = <<request.env.fast.output[1].label>>
               /\ r.model_used = <<"rusentiment_fast">>
               /\ r.routing_decision[1].use_fast
               /\ r.routing_decision[1].reason.code = "EMPTY_TEXT"
               /\ r.routing_decision[1].fast_confidence = <<10000>>
               /\ r.routing_decision[1].text_complexity = Fl(0, 0)
  /\ (Posted /\ Blank(request.text)) =>
       /\ response.raised # <<>>
       /\ response.raised[1].status_code = 400
       /\ response.raised[1].detail = "Text cannot be empty"
       /\ calls = <<>>

\* C20 witness: analyze on one blank while the fast predictor answers
\* "other" with confidence 0.8764: the result is a success with the label
\* "other" and confidence 0.876, and its routing_decision carries 1.0.
C20_Witness ==
  /\ WhitespaceOnly
  /\ request.input.text = <<" ">>
  /\ request.env.fast = Returns(Prediction("other", 8764))
  /\ request.env.router_error = <<>>
  /\ Len(calls) = 2
  /\ response.result[1].success
  /\ response.result[1].sentiment = <<"other">>
  /\ response.result[1].confidence = 8760
  /\ response.result[1].routing_decision[1].fast_confidence = <<10000>>

\* The endpoint turns the same text away
WhitespaceRejectedByEndpoint ==
  /\ Posted
  /\ request.text = <<" ", "\t", "\n">>
  /\ response.raised # <<>>
  /\ response.raised[1].status_code = 400
  /\ calls = <<>>

\* A text the endpoint lets through reaches the service
PostedTextAnalyzed ==
  /\ Posted
  /\ request.text = PlainPiece
  /\ response.raised = <<>>
  /\ response.result[1].success
  /\ Len(calls) = 2

---------------------------------------------------------------------------
(* C21: the timings of a successful result                                 *)

\* analyze has returned a successful result
Succeeded ==
  Analyzed /\ response.raised = <<>> /\ response.result[1].success

Performance == response.result[1].performance[1]

\* The durations measured during the call
Measured == request.env.timing

OnFastPath == response.result[1].routing_decision[1].use_fast

\* The four timings are not negative
TimingsNonNegative ==
  /\ Performance.total_time >= 0
  /\ Performance.fast_model_time >= 0
  /\ Performance.routing_time >= 0
  /\ Performance.final_model_time >= 0

\* total_time is the rounded sum of the fast time, the routing time and the
\* final-model time; on the fast path the final-model time is the fast
\* time, which total_time so counts twice, and on the escalated path it is
\* the time of the accurate call
TotalBuiltFromParts ==
  /\ Performance.fast_model_time = Round4(Measured.fast)
  /\ Performance.routing_time = Round4(Measured.routing)
  /\ OnFastPath =>
       /\ CallsTo("accurate_predictor") = {}
       /\ Performance.final_model_time = Performance.fast_model_time
       /\ Performance.total_time
            = Round4(2 * Measured.fast + Measured.routing)
  /\ ~OnFastPath =>
       /\ Cardinality(CallsTo("accurate_predictor")) = 1
       /\ Performance.final_model_time = Round4(Measured.accurate)
       /\ Performance.total_time
            = Round4(Measured.fast + Measured.routing + Measured.accurate)

\* C21: in every successful result the four timings are non-negative and
\* total_time is built from fast time + routing time + final-model time: on
\* the fast path the final-model time equals the fast-model time, so that
\* the one call of the fast predictor is counted twice, and on the escalated
\* path total_time counts the fast call once and the accurate call once.
C21_TimingBreakdown ==
  Succeeded => (TimingsNonNegative /\ TotalBuiltFromParts)

\* What holds of the code: total_time is built as stated whatever the clock
\* does, and the timings are non-negative when no measured duration is
\* negative, that is when the clock is not set back between two readings
TimingsAsMeasured ==
  Succeeded =>
     /\ TotalBuiltFromParts
     /\ (Measured.fast >= 0 /\ Measured.routing >= 0 /\ Measured.accurate >= 0)
          => TimingsNonNegative

\* The clock set back by 3.5 s during the call of the fast predictor, on the
\* fast path: fast_model_time and final_model_time are -3.5 and total_time
\* is -7.0 (-6.99996 rounded)
NegativeTimingsReturned ==
  /\ Succeeded
  /\ OnFastPath
  /\ request.input.text = PlainPiece
  /\ Performance.fast_model_time = 0 - 350000
  /\ Performance.final_model_time = 0 - 350000
  /\ Performance.total_time = 0 - 700000

\* The fast call counted twice: 0.00123 s measured, 0.0012 reported for the
\* fast model and for the final model, 0.0025 (0.00250 rounded) in total
FastCallCountedTwice ==
  /\ Succeeded
  /\ OnFastPath
  /\ Measured.fast = 123
  /\ Performance.fast_model_time = 120
  /\ Performance.final_model_time = 120
  /\ Performance.total_time = 250

\* The escalated path: 0.00123 + 0.00004 + 0.45678 = 0.45805, reported 0.4580
\* or 0.4581
EscalatedCountsEachOnce ==
  /\ Succeeded
  /\ ~OnFastPath
  /\ Measured.fast = 123
  /\ Performance.final_model_time = 45680
  /\ Performance.total_time \in {45800, 45810}

===========================================================================
